---------------------------- MODULE Spec2Model ----------------------------
(***************************************************************************)
(* Training loop driver, self-construction controller and learning-rate    *)
(* coordinator of DenseNet (src/models/NEWER_dense_net.py).                *)
(*                                                                         *)
(* One action is one iteration of the `while True` loop of                 *)
(* train_all_epochs.  The tensor backend is abstracted by the two values   *)
(* the loop consumes from it each epoch: the epoch's accuracy `acc` and    *)
(* the number of settled layers counted from lcs_src.                      *)
(*                                                                         *)
(* Numbers:                                                                *)
(*  - a learning rate is represented by the number d of divisions by 10    *)
(*    applied to initial_learning_rate (rate = initial * 10^-d), so        *)
(*    initial_lr is 0, initial_lr/10 is 1 and min() of two rates is the    *)
(*    larger d;                                                            *)
(*  - reduce_lr_1 and reduce_lr_2 are numbers of quarters (0.5 is 2, 0.75  *)
(*    is 3), which floating point represents exactly;                      *)
(*  - accuracies and std_tolerance are integers in one common unit.        *)
(***************************************************************************)
EXTENDS Integers, Sequences, FiniteSets, TLC

VARIABLES
    args,                \* constructor arguments of DenseNet.__init__
    train_params,        \* the train_params dict of train_all_epochs
    block_count,         \* self.block_count
    layer_num_list,      \* self.layer_num_list
    total_blocks,        \* self.total_blocks
    max_n_ep,            \* self.max_n_ep
    algorithm_stage,     \* self.algorithm_stage (-1: attribute not set yet)
    settled_layers_ceil, \* self.settled_layers_ceil (-1: not set yet)
    patience_cntdwn,     \* self.patience_cntdwn (-1: not set)
    acc_FIFO,            \* self.acc_FIFO
    epoch,               \* local `epoch` of train_all_epochs
    epoch_last_b,        \* local `epoch_last_b` of train_all_epochs
    learning_rate,       \* local `learning_rate` of train_all_epochs
    pc,                  \* position of the program: "training" inside the
                         \* loop of train_all_epochs, "done" after it,
                         \* "load_model" before load_model, "tested" after
                         \* model.test, or the exception that ended the run
    continue_training,   \* what the last controller step returned
    plateau_count,       \* history: times the accuracy-plateau check fired
    fifo_blocks,         \* history: total_blocks when each acc_FIFO entry
                         \* was appended
    run,                 \* args.train and args.test of run_dense_net.py
    weights,             \* the values held by the session's variables:
                         \* "fresh" (initialised), "trained" or "restored"
    checkpoint,          \* the variables written by the last save_model
                         \* ({}: nothing saved yet)
    cntdwn_set_epoch,    \* history: epoch at which the improvement stage of
                         \* the variants 2 and 3 was entered or its countdown
                         \* restarted (-1: not in such a stage)
    block_added_epoch,   \* history: epoch at which the last Block was added
    filter_ref_list,     \* self.filter_ref_list: per Block, the shape of each
                         \* recorded filter (input channels, kernels)
    kernels_ref_list,    \* self.kernels_ref_list: per Block and composite
                         \* function, the names of its kernel variables
    output,              \* channels of the tensor self.output
    features_total,      \* self.features_total
    FC_W,                \* self.FC_W: the names of the FC weight variables
    trainable_variables, \* tf.trainable_variables(): names of the graph's
                         \* trainable variables
    var_values,          \* the session's value of every such variable, entry
                         \* by entry
    train_step,          \* var_list of self.train_step
    cs_split,            \* the np.split results of the get_cs_list calls
                         \* of process_block_filters, until it returns
    cs_table_ls,         \* cs_table_ls of process_block_filters
    lcs_dst,             \* lcs_dst of process_block_filters
    lcs_src              \* lcs_src of process_block_filters

vars == <<args, train_params, block_count, layer_num_list, total_blocks,
          max_n_ep, algorithm_stage, settled_layers_ceil, patience_cntdwn,
          acc_FIFO, epoch, epoch_last_b, learning_rate, pc,
          continue_training, plateau_count, fifo_blocks, run, weights,
          checkpoint, cntdwn_set_epoch, block_added_epoch,
          filter_ref_list, kernels_ref_list, output, features_total, FC_W,
          trainable_variables, var_values, train_step, cs_split,
          cs_table_ls, lcs_dst, lcs_src>>

\* the TensorFlow graph and the connection-strength analysis
graph == <<filter_ref_list, kernels_ref_list, output, features_total, FC_W,
           trainable_variables, var_values, train_step>>
analysis == <<cs_split, cs_table_ls, lcs_dst, lcs_src>>

\* the specifications of the training loop follow layer_num_list and leave
\* the graph built from it and the analysis of its filters aside
NoGraph ==
    /\ filter_ref_list = <<>>
    /\ kernels_ref_list = <<>>
    /\ output = 0
    /\ features_total = 0
    /\ FC_W = <<>>
    /\ trainable_variables = {}
    /\ var_values = <<>>
    /\ train_step = {}
NoAnalysis ==
    /\ cs_split = <<>>
    /\ cs_table_ls = <<>>
    /\ lcs_dst = <<>>
    /\ lcs_src = <<>>

config == <<args, train_params, block_count, epoch_last_b, run>>

-----------------------------------------------------------------------------
(* Bounds of the model. *)

MaxNEp == 4            \* largest epoch budget max_n_ep
ExtraEpochs == 3       \* epochs explored beyond the budget
MaxAscThresh == 2      \* largest asc_thresh
MaxPatience == 2       \* largest patience_param
MaxStdWindow == 2      \* largest std_window
MaxStdTol == 1         \* largest std_tolerance
MaxAcc == 2            \* largest accuracy value
MaxBlockCount == 2     \* largest block_count argument
MaxInitBlocks == 2     \* largest number of Blocks in layer_num_list
MaxInitLayers == 1     \* largest initial layer count of a Block

Accs == 0..MaxAcc

\* (reduce_lr_1, reduce_lr_2) in quarters, 0 < reduce_lr_1 < reduce_lr_2 < 1
RlrPairs == {<<1, 2>>, <<2, 3>>}

InitLayerLists ==
    UNION {[1..b -> 1..MaxInitLayers] : b \in 1..MaxInitBlocks}

-----------------------------------------------------------------------------
(* Helpers *)

Max(a, b) == IF a >= b THEN a ELSE b

Last(s) == s[Len(s)]

RECURSIVE SumSeq(_)
SumSeq(s) == IF s = <<>> THEN 0 ELSE Head(s) + SumSeq(Tail(s))

RECURSIVE SumSq(_)
SumSq(s) == IF s = <<>> THEN 0 ELSE Head(s) * Head(s) + SumSq(Tail(s))

\* int(n * r) for r = q quarters and n >= 0
IntOfQuarters(n, q) == (n * q) \div 4

\* deque(maxlen=w).append(x)
deque_append(d, x, w) ==
    IF Len(d) < w THEN Append(d, x) ELSE Append(Tail(d), x)

\* np.std(d) < tol, for a non-empty d:
\* std^2 = (n * sum(x^2) - sum(x)^2) / n^2
std_below(d, tol) ==
    LET n == Len(d)
    IN  tol > 0 /\ n * SumSq(d) - SumSeq(d) * SumSeq(d) < tol * tol * n * n

-----------------------------------------------------------------------------
(* Graph mutator, seen through the layer counts *)

\* _new_layer adding two layers at once
new_layer_m1(lnl) == [lnl EXCEPT ![Len(lnl)] = @ + 2]

\* _new_layer: self.layer_num_list[-1] += 1
new_layer(lnl) == [lnl EXCEPT ![Len(lnl)] = @ + 1]

\* _new_block starting the new Block with as many layers as the last one
new_block_m1(lnl) == Append(lnl, Last(lnl))

\* _new_block: self.layer_num_list.append(1)
new_block(lnl) == Append(lnl, 1)

\* The trainable variables of the layers of a graph with the layer counts
\* lnl, one <<block, layer>> per dense layer built by add_block and
\* add_internal_layer.
graph_variables(lnl) ==
    UNION {{<<b, l>> : l \in 1..lnl[b]} : b \in 1..Len(lnl)}

\* self.saver = tf.train.Saver(), at the end of __init__: a Saver built
\* without a var_list takes the variables of the graph at its construction,
\* and the graph then has the layer counts of the layer_num_list argument.
\* The saver is never built again.
saver_var_list == graph_variables(args.layer_num_list)

\* save_model: self.saver.save(self.sess, self.save_path)
save_model == saver_var_list

-----------------------------------------------------------------------------
(* Self-construction controller.                                           *)
(* A step works on the record c of the object fields it reads and writes:  *)
(* algorithm_stage, settled_layers_ceil, patience_cntdwn, max_n_ep,        *)
(* layer_num_list; c.continue_training is the step's return value.         *)
(* settled_layers is the count the step derives from lcs_src.              *)


\* self_constructing_var0 appending on epoch % asc_thresh == 0
self_constructing_var0_m1(ep, settled_layers, c) ==
    LET a == IF c.algorithm_stage = 0
             THEN IF settled_layers > 0
                  THEN [c EXCEPT !.settled_layers_ceil = settled_layers,
                                 !.algorithm_stage = @ + 1]
                  ELSE IF ep % args.asc_thresh = 0
                       THEN [c EXCEPT !.layer_num_list = new_layer(@)]
                       ELSE c
             ELSE c
    IN  IF a.algorithm_stage = 1
        THEN IF ep >= a.max_n_ep
             THEN [a EXCEPT !.continue_training = FALSE,
                            !.algorithm_stage = 0]
             ELSE a
        ELSE a

\* self_constructing_var0 stopping on epoch > max_n_ep
self_constructing_var0_m2(ep, settled_layers, c) ==
    LET a == IF c.algorithm_stage = 0
             THEN IF settled_layers > 0
                  THEN [c EXCEPT !.settled_layers_ceil = settled_layers,
                                 !.algorithm_stage = @ + 1]
                  ELSE IF (ep - 1) % args.asc_thresh = 0
                       THEN [c EXCEPT !.layer_num_list = new_layer(@)]
                       ELSE c
             ELSE c
    IN  IF a.algorithm_stage = 1
        THEN IF ep > a.max_n_ep
             THEN [a EXCEPT !.continue_training = FALSE,
                            !.algorithm_stage = 0]
             ELSE a
        ELSE a

self_constructing_var0(ep, settled_layers, c) ==
    LET a == IF c.algorithm_stage = 0
             THEN IF settled_layers > 0
                  THEN [c EXCEPT !.settled_layers_ceil = settled_layers,
                                 !.algorithm_stage = @ + 1]
                  ELSE IF (ep - 1) % args.asc_thresh = 0
                       THEN [c EXCEPT !.layer_num_list = new_layer(@)]
                       ELSE c
             ELSE c
    IN  IF a.algorithm_stage = 1
        THEN IF ep >= a.max_n_ep
             THEN [a EXCEPT !.continue_training = FALSE,
                            !.algorithm_stage = 0]
             ELSE a
        ELSE a


\* self_constructing_var1 appending when settled_layers equals the ceil too
self_constructing_var1_m1(ep, settled_layers, c) ==
    LET a == IF c.algorithm_stage = 0
             THEN IF settled_layers > 0
                  THEN [c EXCEPT !.settled_layers_ceil = settled_layers,
                                 !.algorithm_stage = @ + 1]
                  ELSE IF (ep - 1) % args.asc_thresh = 0
                       THEN [c EXCEPT !.layer_num_list = new_layer(@)]
                       ELSE c
             ELSE c
    IN  IF a.algorithm_stage = 1
        THEN IF ep >= a.max_n_ep
             THEN [a EXCEPT !.continue_training = FALSE,
                            !.algorithm_stage = 0]
             ELSE IF settled_layers >= a.settled_layers_ceil
                  THEN [a EXCEPT !.settled_layers_ceil = settled_layers,
                                 !.layer_num_list = new_layer(@)]
                  ELSE a
        ELSE a

self_constructing_var1(ep, settled_layers, c) ==
    LET a == IF c.algorithm_stage = 0
             THEN IF settled_layers > 0
                  THEN [c EXCEPT !.settled_layers_ceil = settled_layers,
                                 !.algorithm_stage = @ + 1]
                  ELSE IF (ep - 1) % args.asc_thresh = 0
                       THEN [c EXCEPT !.layer_num_list = new_layer(@)]
                       ELSE c
             ELSE c
    IN  IF a.algorithm_stage = 1
        THEN IF ep >= a.max_n_ep
             THEN [a EXCEPT !.continue_training = FALSE,
                            !.algorithm_stage = 0]
             ELSE IF settled_layers > a.settled_layers_ceil
                  THEN [a EXCEPT !.settled_layers_ceil = settled_layers,
                                 !.layer_num_list = new_layer(@)]
                  ELSE a
        ELSE a


\* self_constructing_var2 leaving ascension on a Block of 2 layers
self_constructing_var2_m1(ep, settled_layers, c) ==
    LET a == IF c.algorithm_stage = 0
             THEN IF settled_layers > 0 /\ Last(c.layer_num_list) >= 2
                  THEN [c EXCEPT !.settled_layers_ceil = settled_layers,
                                 !.algorithm_stage = @ + 1,
                                 !.max_n_ep = ep + args.patience_param]
                  ELSE IF (ep - 1) % args.asc_thresh = 0
                       THEN [c EXCEPT !.layer_num_list = new_layer(@)]
                       ELSE c
             ELSE c
    IN  IF a.algorithm_stage = 1
        THEN IF a.patience_cntdwn <= 0
             THEN [a EXCEPT !.continue_training = FALSE,
                            !.algorithm_stage = 0,
                            !.patience_cntdwn = args.patience_param]
             ELSE IF settled_layers > a.settled_layers_ceil
                  THEN [a EXCEPT !.settled_layers_ceil = settled_layers,
                                 !.layer_num_list = new_layer(@),
                                 !.patience_cntdwn = args.patience_param,
                                 !.max_n_ep = ep + args.patience_param]
                  ELSE [a EXCEPT !.patience_cntdwn = @ - 1]
        ELSE a

\* self_constructing_var2 stopping only below a countdown of 0
self_constructing_var2_m2(ep, settled_layers, c) ==
    LET a == IF c.algorithm_stage = 0
             THEN IF settled_layers > 0 /\ Last(c.layer_num_list) > 2
                  THEN [c EXCEPT !.settled_layers_ceil = settled_layers,
                                 !.algorithm_stage = @ + 1,
                                 !.max_n_ep = ep + args.patience_param]
                  ELSE IF (ep - 1) % args.asc_thresh = 0
                       THEN [c EXCEPT !.layer_num_list = new_layer(@)]
                       ELSE c
             ELSE c
    IN  IF a.algorithm_stage = 1
        THEN IF a.patience_cntdwn < 0
             THEN [a EXCEPT !.continue_training = FALSE,
                            !.algorithm_stage = 0,
                            !.patience_cntdwn = args.patience_param]
             ELSE IF settled_layers > a.settled_layers_ceil
                  THEN [a EXCEPT !.settled_layers_ceil = settled_layers,
                                 !.layer_num_list = new_layer(@),
                                 !.patience_cntdwn = args.patience_param,
                                 !.max_n_ep = ep + args.patience_param]
                  ELSE [a EXCEPT !.patience_cntdwn = @ - 1]
        ELSE a

self_constructing_var2(ep, settled_layers, c) ==
    LET a == IF c.algorithm_stage = 0
             THEN IF settled_layers > 0 /\ Last(c.layer_num_list) > 2
                  THEN [c EXCEPT !.settled_layers_ceil = settled_layers,
                                 !.algorithm_stage = @ + 1,
                                 !.max_n_ep = ep + args.patience_param]
                  ELSE IF (ep - 1) % args.asc_thresh = 0
                       THEN [c EXCEPT !.layer_num_list = new_layer(@)]
                       ELSE c
             ELSE c
    IN  IF a.algorithm_stage = 1
        THEN IF a.patience_cntdwn <= 0
             THEN [a EXCEPT !.continue_training = FALSE,
                            !.algorithm_stage = 0,
                            !.patience_cntdwn = args.patience_param]
             ELSE IF settled_layers > a.settled_layers_ceil
                  THEN [a EXCEPT !.settled_layers_ceil = settled_layers,
                                 !.layer_num_list = new_layer(@),
                                 !.patience_cntdwn = args.patience_param,
                                 !.max_n_ep = ep + args.patience_param]
                  ELSE [a EXCEPT !.patience_cntdwn = @ - 1]
        ELSE a


\* self_constructing_var3 following settled_layers down as well as up
self_constructing_var3_m1(ep, settled_layers, c) ==
    LET a == IF c.algorithm_stage = 0
             THEN IF (ep - 1) % args.asc_thresh = 0
                  THEN [c EXCEPT !.layer_num_list = new_layer(@)]
                  ELSE c
             ELSE c
    IN  IF a.algorithm_stage = 1
        THEN IF a.patience_cntdwn <= 0
             THEN [a EXCEPT !.continue_training = FALSE,
                            !.algorithm_stage = 0,
                            !.patience_cntdwn = args.patience_param]
             ELSE IF settled_layers # a.settled_layers_ceil
                  THEN [a EXCEPT !.settled_layers_ceil = settled_layers,
                                 !.layer_num_list = new_layer(@),
                                 !.patience_cntdwn = args.patience_param,
                                 !.max_n_ep = ep + args.patience_param]
                  ELSE [a EXCEPT !.patience_cntdwn = @ - 1]
        ELSE a

\* self_constructing_var3 leaving ascension when a layer settles
self_constructing_var3_m2(ep, settled_layers, c) ==
    LET a == IF c.algorithm_stage = 0
             THEN IF settled_layers > 0
                  THEN [c EXCEPT !.settled_layers_ceil = settled_layers,
                                 !.algorithm_stage = @ + 1]
                  ELSE IF (ep - 1) % args.asc_thresh = 0
                       THEN [c EXCEPT !.layer_num_list = new_layer(@)]
                       ELSE c
             ELSE c
    IN  IF a.algorithm_stage = 1
        THEN IF a.patience_cntdwn <= 0
             THEN [a EXCEPT !.continue_training = FALSE,
                            !.algorithm_stage = 0,
                            !.patience_cntdwn = args.patience_param]
             ELSE IF settled_layers > a.settled_layers_ceil
                  THEN [a EXCEPT !.settled_layers_ceil = settled_layers,
                                 !.layer_num_list = new_layer(@),
                                 !.patience_cntdwn = args.patience_param,
                                 !.max_n_ep = ep + args.patience_param]
                  ELSE [a EXCEPT !.patience_cntdwn = @ - 1]
        ELSE a

self_constructing_var3(ep, settled_layers, c) ==
    LET a == IF c.algorithm_stage = 0
             THEN IF (ep - 1) % args.asc_thresh = 0
                  THEN [c EXCEPT !.layer_num_list = new_layer(@)]
                  ELSE c
             ELSE c
    IN  IF a.algorithm_stage = 1
        THEN IF a.patience_cntdwn <= 0
             THEN [a EXCEPT !.continue_training = FALSE,
                            !.algorithm_stage = 0,
                            !.patience_cntdwn = args.patience_param]
             ELSE IF settled_layers > a.settled_layers_ceil
                  THEN [a EXCEPT !.settled_layers_ceil = settled_layers,
                                 !.layer_num_list = new_layer(@),
                                 !.patience_cntdwn = args.patience_param,
                                 !.max_n_ep = ep + args.patience_param]
                  ELSE [a EXCEPT !.patience_cntdwn = @ - 1]
        ELSE a


\* self.self_constructing_step falling back to variant 2
self_constructing_step_m1(ep, settled_layers, c) ==
    IF args.self_constructing_var = 0
    THEN self_constructing_var0(ep, settled_layers, c)
    ELSE IF args.self_constructing_var = 1
    THEN self_constructing_var1(ep, settled_layers, c)
    ELSE self_constructing_var2(ep, settled_layers, c)

\* self.self_constructing_step, as bound in __init__
self_constructing_step(ep, settled_layers, c) ==
    IF args.self_constructing_var = 0
    THEN self_constructing_var0(ep, settled_layers, c)
    ELSE IF args.self_constructing_var = 1
    THEN self_constructing_var1(ep, settled_layers, c)
    ELSE IF args.self_constructing_var = 2
    THEN self_constructing_var2(ep, settled_layers, c)
    ELSE self_constructing_var3(ep, settled_layers, c)

-----------------------------------------------------------------------------
(* Learning-rate coordinator.  cntdwn is self.patience_cntdwn at the call. *)

\* int(self.patience_param * (1 - rlr)), rlr in quarters
rlr_threshold(rlr) == IntOfQuarters(args.patience_param, 4 - rlr)


\* self_constr_rlr0 without the second reduction
self_constr_rlr0_m1(lr, initial_lr, rlr_1, rlr_2, cntdwn) ==
    IF cntdwn = rlr_threshold(rlr_1) THEN lr + 1
    ELSE IF cntdwn = args.patience_param THEN initial_lr
    ELSE lr

self_constr_rlr0(lr, initial_lr, rlr_1, rlr_2, cntdwn) ==
    IF cntdwn = rlr_threshold(rlr_1) THEN lr + 1
    ELSE IF cntdwn = rlr_threshold(rlr_2) THEN lr + 1
    ELSE IF cntdwn = args.patience_param THEN initial_lr
    ELSE lr


\* self_constr_rlr1 clamping to initial_lr/100 at the second threshold
self_constr_rlr1_m1(lr, initial_lr, rlr_1, rlr_2, cntdwn) ==
    IF cntdwn = rlr_threshold(rlr_1) THEN Max(lr, initial_lr + 1)
    ELSE IF cntdwn = rlr_threshold(rlr_2) THEN lr + 1
    ELSE lr

self_constr_rlr1(lr, initial_lr, rlr_1, rlr_2, cntdwn) ==
    IF cntdwn = rlr_threshold(rlr_1) THEN Max(lr, initial_lr + 1)
    ELSE IF cntdwn = rlr_threshold(rlr_2) THEN initial_lr + 2
    ELSE lr

\* self.self_constr_rlr, as bound in __init__
self_constr_rlr(lr, initial_lr, rlr_1, rlr_2, cntdwn) ==
    IF args.self_constr_rlr = 0
    THEN self_constr_rlr0(lr, initial_lr, rlr_1, rlr_2, cntdwn)
    ELSE self_constr_rlr1(lr, initial_lr, rlr_1, rlr_2, cntdwn)

\* "optional learning rate reduction for self-constructing", at the end of
\* the loop body: the rate for the next epoch

\* optional_rlr calling the coordinator whatever should_change_lr is
optional_rlr_m1(lr, cntdwn) ==
    self_constr_rlr(lr, 0, train_params.reduce_lr_1,
                    train_params.reduce_lr_2, cntdwn)

optional_rlr(lr, cntdwn) ==
    IF args.should_change_lr
    THEN self_constr_rlr(lr, 0, train_params.reduce_lr_1,
                         train_params.reduce_lr_2, cntdwn)
    ELSE lr

\* the non-adaptive schedule at the top of the loop body

\* the fixed schedule reducing at reduce_lr_1 only
fixed_schedule_m1(lr, ep) ==
    IF ep = IntOfQuarters(max_n_ep, train_params.reduce_lr_1)
    THEN lr + 1
    ELSE lr

fixed_schedule(lr, ep) ==
    IF \/ ep = IntOfQuarters(max_n_ep, train_params.reduce_lr_1)
       \/ ep = IntOfQuarters(max_n_ep, train_params.reduce_lr_2)
    THEN lr + 1
    ELSE lr

-----------------------------------------------------------------------------
(* Construction (DenseNet.__init__) followed by the first lines of         *)
(* train_all_epochs, up to the head of the loop.                           *)

\* Arguments that no statement reads under the chosen flags are kept at one
\* value: the self-construction parameters when should_self_construct is
\* false, reduce_lr_1 and reduce_lr_2 when should_change_lr is false.
\* should_save_model has the default of run_dense_net.py.
SelfConstructArgs ==
    [should_self_construct : {TRUE},
     should_change_lr : BOOLEAN,
     should_save_model : {TRUE},
     self_constructing_var : 0..3,
     self_constr_rlr : 0..1,
     block_count : 1..MaxBlockCount,
     asc_thresh : 1..MaxAscThresh,
     patience_param : 0..MaxPatience,
     std_tolerance : 0..MaxStdTol,
     std_window : 1..MaxStdWindow,
     layer_num_list : InitLayerLists]

FixedArgs ==
    [should_self_construct : {FALSE},
     should_change_lr : BOOLEAN,
     should_save_model : {TRUE},
     self_constructing_var : {3},
     self_constr_rlr : {1},
     block_count : {1},
     asc_thresh : {1},
     patience_param : {0},
     std_tolerance : {0},
     std_window : {1},
     layer_num_list : InitLayerLists]

TrainParams ==
    {[max_n_ep |-> n, reduce_lr_1 |-> r[1], reduce_lr_2 |-> r[2]] :
        n \in 1..MaxNEp, r \in RlrPairs}

\* the model object and the locals of train_all_epochs
Constructed(a, tp) ==
    /\ args = a
    /\ train_params = tp
    /\ block_count = Max(1, a.block_count)
    /\ layer_num_list = a.layer_num_list
    /\ total_blocks = Len(a.layer_num_list)
    /\ max_n_ep = tp.max_n_ep
    /\ algorithm_stage = -1
    /\ settled_layers_ceil = -1
    /\ patience_cntdwn = IF a.should_self_construct
                         THEN a.patience_param ELSE -1
    /\ acc_FIFO = <<>>
    /\ epoch = 1
    /\ epoch_last_b = 0
    /\ learning_rate = 0
    /\ continue_training = TRUE
    /\ plateau_count = 0
    /\ fifo_blocks = <<>>
    /\ weights = "fresh"
    /\ checkpoint = {}
    /\ cntdwn_set_epoch = -1
    /\ block_added_epoch = 0
    /\ NoGraph
    /\ NoAnalysis

\* a run of the script with --train and without --test
InitWith(a, tp) ==
    /\ Constructed(a, tp)
    /\ run = [train |-> TRUE, test |-> FALSE]
    /\ pc = "training"

Init == \E a \in SelfConstructArgs \cup FixedArgs, tp \in TrainParams :
            /\ ~a.should_change_lr => tp.reduce_lr_1 = 2 /\ tp.reduce_lr_2 = 3
            /\ InitWith(a, tp)

-----------------------------------------------------------------------------
(* One iteration of the loop of train_all_epochs *)

InLoop ==
    /\ pc = "training"
    /\ epoch <= train_params.max_n_ep + ExtraEpochs

\* not self-constructing: fixed schedule, stop after max_n_ep epochs
EpochFixed ==
    /\ InLoop
    /\ ~args.should_self_construct
    /\ learning_rate' = IF args.should_change_lr
                        THEN fixed_schedule(learning_rate, epoch)
                        ELSE learning_rate
    /\ epoch' = epoch + 1
    /\ pc' = IF epoch + 1 >= max_n_ep + 1 THEN "done" ELSE "training"
    /\ weights' = "trained"
    /\ checkpoint' = IF args.should_save_model THEN save_model ELSE checkpoint
    /\ UNCHANGED <<config, graph, analysis, layer_num_list, total_blocks, max_n_ep,
                   algorithm_stage, settled_layers_ceil, patience_cntdwn,
                   acc_FIFO, continue_training, plateau_count, fifo_blocks,
                   cntdwn_set_epoch, block_added_epoch>>

\* self-constructing, epoch - epoch_last_b == 1: reset the algorithm's variables
EpochReset ==
    /\ InLoop
    /\ args.should_self_construct
    /\ epoch - epoch_last_b = 1
    /\ settled_layers_ceil' = 0
    /\ algorithm_stage' = 0
    /\ patience_cntdwn' = args.patience_param
    /\ epoch' = epoch + 1
    /\ weights' = "trained"
    /\ checkpoint' = IF args.should_save_model THEN save_model ELSE checkpoint
    /\ UNCHANGED <<config, graph, analysis, layer_num_list, total_blocks, max_n_ep, acc_FIFO,
                   learning_rate, pc, continue_training, plateau_count,
                   fifo_blocks, cntdwn_set_epoch, block_added_epoch>>

\* What the loop does with the controller's return value: add another Block
\* if block_count is not yet reached, else break.

\* block_or_break adding a Block while total_blocks <= block_count
block_or_break_m1(cont, blocks, lnl) ==
    IF ~cont
    THEN IF blocks <= block_count
         THEN [layer_num_list |-> new_block(lnl),
               total_blocks |-> blocks + 1,
               pc |-> "training"]
         ELSE [layer_num_list |-> lnl, total_blocks |-> blocks, pc |-> "done"]
    ELSE [layer_num_list |-> lnl, total_blocks |-> blocks, pc |-> "training"]

block_or_break(cont, blocks, lnl) ==
    IF ~cont
    THEN IF blocks < block_count
         THEN [layer_num_list |-> new_block(lnl),
               total_blocks |-> blocks + 1,
               pc |-> "training"]
         ELSE [layer_num_list |-> lnl, total_blocks |-> blocks, pc |-> "done"]
    ELSE [layer_num_list |-> lnl, total_blocks |-> blocks, pc |-> "training"]

\* The accuracy-plateau check of the loop body; f is the record of
\* acc_FIFO, algorithm_stage, max_n_ep and of the two history variables.

\* plateau_check without the test that the FIFO is full
plateau_check_m1(acc, f) ==
    IF f.algorithm_stage = 0
    THEN LET fifo == deque_append(f.acc_FIFO, acc, args.std_window)
             plateau == std_below(fifo, args.std_tolerance)
         IN  [acc_FIFO |-> fifo,
              algorithm_stage |-> IF plateau THEN f.algorithm_stage + 1
                                  ELSE f.algorithm_stage,
              max_n_ep |-> IF /\ plateau
                              /\ args.self_constructing_var # 0
                              /\ args.self_constructing_var # 1
                           THEN epoch + args.patience_param
                           ELSE f.max_n_ep,
              plateau_count |-> IF plateau THEN f.plateau_count + 1
                                ELSE f.plateau_count,
              fifo_blocks |-> deque_append(f.fifo_blocks, total_blocks,
                                           args.std_window)]
    ELSE f

plateau_check(acc, f) ==
    IF f.algorithm_stage = 0
    THEN LET fifo == deque_append(f.acc_FIFO, acc, args.std_window)
             plateau == /\ Len(fifo) = args.std_window
                        /\ std_below(fifo, args.std_tolerance)
         IN  [acc_FIFO |-> fifo,
              algorithm_stage |-> IF plateau THEN f.algorithm_stage + 1
                                  ELSE f.algorithm_stage,
              max_n_ep |-> IF /\ plateau
                              /\ args.self_constructing_var # 0
                              /\ args.self_constructing_var # 1
                           THEN epoch + args.patience_param
                           ELSE f.max_n_ep,
              plateau_count |-> IF plateau THEN f.plateau_count + 1
                                ELSE f.plateau_count,
              fifo_blocks |-> deque_append(f.fifo_blocks, total_blocks,
                                           args.std_window)]
    ELSE f

\* self-constructing, any other epoch: plateau check, controller step,
\* new Block or end of training, learning-rate coordinator
EpochSelfConstruct(acc, settled_layers) ==
    /\ InLoop
    /\ args.should_self_construct
    /\ epoch - epoch_last_b # 1
    /\ \E f \in {plateau_check(acc,
                    [acc_FIFO |-> acc_FIFO,
                     algorithm_stage |-> algorithm_stage,
                     max_n_ep |-> max_n_ep,
                     plateau_count |-> plateau_count,
                     fifo_blocks |-> fifo_blocks])} :
       \E c \in {self_constructing_step(epoch - epoch_last_b, settled_layers,
                    [algorithm_stage |-> f.algorithm_stage,
                     settled_layers_ceil |-> settled_layers_ceil,
                     patience_cntdwn |-> patience_cntdwn,
                     max_n_ep |-> f.max_n_ep,
                     layer_num_list |-> layer_num_list,
                     continue_training |-> TRUE])} :
          /\ acc_FIFO' = f.acc_FIFO
          /\ fifo_blocks' = f.fifo_blocks
          /\ plateau_count' = f.plateau_count
          /\ algorithm_stage' = c.algorithm_stage
          /\ settled_layers_ceil' = c.settled_layers_ceil
          /\ patience_cntdwn' = c.patience_cntdwn
          /\ max_n_ep' = c.max_n_ep
          /\ continue_training' = c.continue_training
          /\ \E b \in {block_or_break(c.continue_training, total_blocks,
                                      c.layer_num_list)} :
                /\ layer_num_list' = b.layer_num_list
                /\ total_blocks' = b.total_blocks
                /\ pc' = b.pc
                /\ block_added_epoch' =
                      IF b.total_blocks > total_blocks
                      THEN epoch ELSE block_added_epoch
          /\ cntdwn_set_epoch' =
                IF c.algorithm_stage = 1 /\ args.self_constructing_var \notin {0, 1}
                THEN IF \/ algorithm_stage = 0
                        \/ c.settled_layers_ceil > settled_layers_ceil
                     THEN epoch ELSE cntdwn_set_epoch
                ELSE -1
          /\ IF pc' = "done"
             THEN UNCHANGED <<learning_rate, epoch>>
             ELSE /\ learning_rate' = optional_rlr(learning_rate,
                                                   c.patience_cntdwn)
                  /\ epoch' = epoch + 1
    /\ weights' = "trained"
    /\ checkpoint' = IF args.should_save_model THEN save_model ELSE checkpoint
    /\ UNCHANGED <<config, graph, analysis>>

\* The values the backend can hand to the loop in one epoch: any accuracy,
\* and a settled count over the layers 1.. of the last Block.
TrainEpoch ==
    \E acc \in Accs, settled_layers \in 0..(Last(layer_num_list) - 1) :
        EpochSelfConstruct(acc, settled_layers)

Next == EpochFixed \/ EpochReset \/ TrainEpoch

Spec == Init /\ [][Next]_vars

-----------------------------------------------------------------------------
(* Runs in which the backend never reports a settled layer, under          *)
(* controller variant 0.                                                   *)

InitVar0 == \E a \in SelfConstructArgs, tp \in TrainParams :
                /\ a.self_constructing_var = 0
                /\ ~a.should_change_lr => tp.reduce_lr_1 = 2 /\ tp.reduce_lr_2 = 3
                /\ InitWith(a, tp)

TrainEpochUnsettled == \E acc \in Accs : EpochSelfConstruct(acc, 0)

NextUnsettled == EpochReset \/ TrainEpochUnsettled

SpecUnsettled == InitVar0 /\ [][NextUnsettled]_vars

\* append-layer actions performed so far on the last Block
LayersAppended == Last(layer_num_list) - Last(args.layer_num_list)

\* C1 as stated: with no layer ever settling, variant 0 has performed
\* max_n_ep // asc_thresh append-layer actions once the epoch max_n_ep has
\* run, and training is over at that epoch (it never goes on to the next).
C1_StopsAtBudget ==
    /\ epoch > train_params.max_n_ep => pc = "done"
    /\ pc = "done" =>
          /\ epoch = train_params.max_n_ep
          /\ LayersAppended = train_params.max_n_ep \div args.asc_thresh

\* C1 amended: with no layer ever settling and the accuracy-plateau check
\* never firing, variant 0 stays in ascension and never stops; after the
\* epochs 1..e it has appended (e - 1) // asc_thresh layers, so
\* (max_n_ep - 1) // asc_thresh once the epoch max_n_ep has run.
C1_AscensionNeverStops ==
    (plateau_count = 0 /\ epoch >= 2) =>
        /\ pc = "training"
        /\ algorithm_stage = 0
        /\ total_blocks = Len(args.layer_num_list)
        /\ LayersAppended = (epoch - 2) \div args.asc_thresh

\* the epoch max_n_ep has run, max_n_ep is a multiple of asc_thresh, layers
\* were appended, and training goes on
C1_Witness ==
    /\ plateau_count = 0
    /\ epoch = train_params.max_n_ep + 1
    /\ train_params.max_n_ep % args.asc_thresh = 0
    /\ LayersAppended >= 1
    /\ LayersAppended = (train_params.max_n_ep - 1) \div args.asc_thresh
    /\ pc = "training"

-----------------------------------------------------------------------------
(* The end-to-end scenario: 1 Block of 1 Layer, asc_thresh = 5, variant 0, *)
(* max_n_ep = 20, block_count = 1, and a backend that first reports a      *)
(* settled layer at epoch 12.                                              *)

InitE2E == \E a \in SelfConstructArgs, tp \in TrainParams :
               /\ a.self_constructing_var = 0
               /\ a.block_count = 1
               /\ a.layer_num_list = <<1>>
               /\ a.asc_thresh = 1
               /\ tp.max_n_ep = 1
               /\ ~a.should_change_lr => tp.reduce_lr_1 = 2 /\ tp.reduce_lr_2 = 3
               /\ InitWith([a EXCEPT !.asc_thresh = 5],
                           [tp EXCEPT !.max_n_ep = 20])

SettledE2E ==
    IF epoch < 12 THEN {0}
    ELSE IF epoch = 12 THEN 1..(Last(layer_num_list) - 1)
    ELSE 0..(Last(layer_num_list) - 1)

TrainEpochE2E == \E acc \in Accs, settled_layers \in SettledE2E :
                     EpochSelfConstruct(acc, settled_layers)

NextE2E == EpochReset \/ TrainEpochE2E

SpecE2E == InitE2E /\ [][NextE2E]_vars

\* C2 as stated: layers are appended at the epochs 5 and 10 (the last Block
\* has 1 layer until epoch 5 has run, 2 until epoch 10 has run, 3 afterwards).
C2_AppendsAt5And10 ==
    (plateau_count = 0 /\ pc = "training") =>
        Last(layer_num_list) = IF epoch <= 5 THEN 1
                               ELSE IF epoch <= 10 THEN 2 ELSE 3

\* C2 amended: as long as the accuracy-plateau check does not fire, exactly
\* 2 layers are appended, at the epochs 6 and 11 (none at 16); the stage is
\* ascension up to epoch 12 and improvement from the end of epoch 12 to
\* epoch 20, with no further mutation; training halts at epoch 20 without
\* appending a Block.
C2_EndToEnd ==
    plateau_count = 0 =>
        /\ total_blocks = 1
        /\ Last(layer_num_list) = IF epoch <= 6 THEN 1
                                  ELSE IF epoch <= 11 THEN 2 ELSE 3
        /\ epoch <= 12 => algorithm_stage \in {-1, 0} /\ pc = "training"
        /\ (epoch > 12 /\ pc = "training") => algorithm_stage = 1
        /\ epoch <= 20
        /\ pc = "done" => epoch = 20 /\ ~continue_training

\* training has halted at epoch 20 with the 3 layers
C2_Witness ==
    /\ plateau_count = 0
    /\ pc = "done"
    /\ epoch = 20
    /\ layer_num_list = <<3>>

-----------------------------------------------------------------------------
(* Claims on the general specification *)

SelfConstructing == args.should_self_construct

\* C3: in self-constructing mode, whenever the controller step reports the
\* stop condition, one Block is appended and training continues if
\* total_blocks < block_count, and training ends at that epoch otherwise;
\* training ends in no other way, and total_blocks never exceeds the larger
\* of the initial number of Blocks and block_count.
C3_StopRule ==
    /\ [](total_blocks <= Max(Len(args.layer_num_list), block_count))
    /\ [][SelfConstructing =>
            /\ ~continue_training' =>
                  IF total_blocks < block_count
                  THEN /\ total_blocks' = total_blocks + 1
                       /\ Len(layer_num_list') = Len(layer_num_list) + 1
                       /\ Last(layer_num_list') = 1
                       /\ pc' = "training"
                       /\ epoch' = epoch + 1
                  ELSE /\ total_blocks' = total_blocks
                       /\ pc' = "done"
                       /\ epoch' = epoch
            /\ continue_training' =>
                  /\ total_blocks' = total_blocks
                  /\ Len(layer_num_list') = Len(layer_num_list)
                  /\ pc' = "training"]_vars

\* a Block was appended on a first stop and training ended on a later one
C3_Witness ==
    /\ SelfConstructing
    /\ total_blocks = Len(args.layer_num_list) + 1
    /\ total_blocks = block_count
    /\ pc = "done"

\* the state in which the epoch after an append-Block starts
BlockJustAppended ==
    /\ SelfConstructing
    /\ pc = "training"
    /\ ~continue_training

\* C4: after a new Block is appended, the next controller step starts from
\* stage = ascension, settled_layers_ceil = 0, patience_countdown =
\* patience_param.
C4_ResetAfterNewBlock ==
    BlockJustAppended =>
        /\ algorithm_stage = 0
        /\ settled_layers_ceil = 0
        /\ patience_cntdwn = args.patience_param

\* C5: the accuracy FIFO is reset with a new Block: when the plateau check
\* fires, every accuracy it considered was recorded for the current last
\* Block.
C5_PlateauOnCurrentBlock ==
    [][plateau_count' > plateau_count =>
          \A i \in DOMAIN fifo_blocks' : fifo_blocks'[i] = total_blocks]_vars

\* C6: under the variants 1, 2 and 3, across two consecutive epochs of one
\* improvement stage settled_layers_ceil does not decrease.
C6_CeilMonotone ==
    [][(/\ SelfConstructing
        /\ args.self_constructing_var \in 1..3
        /\ algorithm_stage = 1
        /\ algorithm_stage' = 1)
       => settled_layers_ceil' >= settled_layers_ceil]_vars

\* variant 3 in the improvement stage of the first Block, with the ceil
\* raised since the stage began (it enters improvement with the ceil at 0)
C6_Witness ==
    /\ SelfConstructing
    /\ args.self_constructing_var = 3
    /\ total_blocks = Len(args.layer_num_list)
    /\ algorithm_stage = 1
    /\ settled_layers_ceil >= 1

\* learning-rate variant 0 is in use and the coordinator runs every epoch
Rlr0 ==
    /\ SelfConstructing
    /\ args.should_change_lr
    /\ args.self_constr_rlr = 0

Rlr1 ==
    /\ SelfConstructing
    /\ args.should_change_lr
    /\ args.self_constr_rlr # 0

T1 == rlr_threshold(train_params.reduce_lr_1)

T2 == rlr_threshold(train_params.reduce_lr_2)

\* C7: under learning-rate variant 0, after an epoch in which the
\* coordinator ran and patience_countdown equals patience_param, the
\* learning rate is initial_lr.
C7_ResetRestoresInitial ==
    (Rlr0 /\ pc = "training" /\ epoch > 2
          /\ patience_cntdwn = args.patience_param)
    => learning_rate = 0

CoordinatorRuns ==
    /\ SelfConstructing
    /\ args.should_change_lr
    /\ epoch - epoch_last_b # 1
    /\ pc = "training"
    /\ pc' = "training"
    /\ epoch' = epoch + 1

FixedReductions(n) ==
    {e \in {IntOfQuarters(train_params.max_n_ep, train_params.reduce_lr_1),
            IntOfQuarters(train_params.max_n_ep, train_params.reduce_lr_2)} :
        1 <= e /\ e <= n}

FixedSchedule == ~args.should_self_construct /\ args.should_change_lr

C11_RateIsInitial ==
    ~args.should_change_lr => learning_rate = 0

\* learning-rate changes are disabled and the countdown of a self-constructing
\* run under learning-rate variant 0 stands at the first reduction threshold,
\* where the coordinator would have divided the rate
C11_Witness ==
    /\ ~args.should_change_lr
    /\ SelfConstructing
    /\ args.self_constr_rlr = 0
    /\ args.patience_param >= 1
    /\ pc = "training"
    /\ epoch > 2
    /\ algorithm_stage = 1
    /\ patience_cntdwn = T1
    /\ learning_rate = 0

\* C12: every post-epoch save snapshots all the trainable variables that
\* exist in the graph when it is made (the graph the epoch was trained on),
\* those of earlier append-layer and append-Block mutations included.
C12_SaveCoversGraph ==
    [][args.should_save_model =>
          checkpoint' = graph_variables(layer_num_list)]_vars

-----------------------------------------------------------------------------
(* The script run_dense_net.py around a model that does not self-construct: *)
(* train and/or test, the model being loaded when it is tested untrained.   *)

Runs == {r \in [train : BOOLEAN, test : BOOLEAN] : r.train \/ r.test}

InitMain == \E a \in FixedArgs, tp \in TrainParams, r \in Runs :
                /\ ~a.should_change_lr => tp.reduce_lr_1 = 2 /\ tp.reduce_lr_2 = 3
                /\ Constructed(a, tp)
                /\ run = r
                /\ pc = IF r.train THEN "training" ELSE "load_model"

\* load_model swallowing the failure of the restore
LoadModel_m1 ==
    /\ pc = "load_model"
    /\ \E restored \in BOOLEAN :
          /\ weights' = IF restored THEN "restored" ELSE weights
          /\ pc' = "done"
    /\ UNCHANGED <<config, graph, analysis, layer_num_list, total_blocks, max_n_ep,
                   algorithm_stage, settled_layers_ceil, patience_cntdwn,
                   acc_FIFO, epoch, learning_rate, continue_training,
                   plateau_count, fifo_blocks, checkpoint, cntdwn_set_epoch,
                   block_added_epoch>>

\* load_model: the restore of the checkpoint at save_path succeeds or fails
\* (path missing or incompatible); a failure is raised as an IOError, which
\* nothing in the script catches.
LoadModel ==
    /\ pc = "load_model"
    /\ \E restored \in BOOLEAN :
          /\ weights' = IF restored THEN "restored" ELSE weights
          /\ pc' = IF restored THEN "done" ELSE "IOError"
    /\ UNCHANGED <<config, graph, analysis, layer_num_list, total_blocks, max_n_ep,
                   algorithm_stage, settled_layers_ceil, patience_cntdwn,
                   acc_FIFO, epoch, learning_rate, continue_training,
                   plateau_count, fifo_blocks, checkpoint, cntdwn_set_epoch,
                   block_added_epoch>>

\* `if args.test:` model.test on the test set
Test ==
    /\ pc = "done"
    /\ run.test
    /\ pc' = "tested"
    /\ UNCHANGED <<config, graph, analysis, layer_num_list, total_blocks, max_n_ep,
                   algorithm_stage, settled_layers_ceil, patience_cntdwn,
                   acc_FIFO, epoch, learning_rate, continue_training,
                   plateau_count, fifo_blocks, weights, checkpoint,
                   cntdwn_set_epoch, block_added_epoch>>

NextMain == EpochFixed \/ LoadModel \/ Test

SpecMain == InitMain /\ [][NextMain]_vars

\* C13: a failed restore ends load_model in an IOError that reaches the
\* caller and ends the run; the model is tested only after it was trained or
\* restored, never freshly initialised.
C13_LoadFailureIsFatal ==
    /\ [](pc = "tested" => weights # "fresh")
    /\ [][/\ (pc = "load_model" /\ weights' # "restored") => pc' = "IOError"
          /\ pc # "IOError"]_vars

\* a test-only run whose restore failed
C13_Witness ==
    /\ ~run.train
    /\ run.test
    /\ pc = "IOError"
    /\ weights = "fresh"

-----------------------------------------------------------------------------
(* Self-constructing runs whose variant selectors identify no variant: -1,  *)
(* the default of run_dense_net.py, and the first index above the variants. *)

SelectorArgs ==
    [should_self_construct : {TRUE},
     should_change_lr : {TRUE},
     should_save_model : {TRUE},
     self_constructing_var : {-1, 4},
     self_constr_rlr : {-1, 2},
     block_count : 1..MaxBlockCount,
     asc_thresh : 1..MaxAscThresh,
     patience_param : 0..MaxPatience,
     std_tolerance : 0..MaxStdTol,
     std_window : 1..MaxStdWindow,
     layer_num_list : InitLayerLists]

InitSelectors == \E a \in SelectorArgs, tp \in TrainParams : InitWith(a, tp)

NextSelectors == EpochReset \/ TrainEpoch

SpecSelectors == InitSelectors /\ [][NextSelectors]_vars

\* the fields a controller step reads and writes, as they stand
controller_state ==
    [algorithm_stage |-> algorithm_stage,
     settled_layers_ceil |-> settled_layers_ceil,
     patience_cntdwn |-> patience_cntdwn,
     max_n_ep |-> max_n_ep,
     layer_num_list |-> layer_num_list,
     continue_training |-> TRUE]

\* C14: the model is constructed whatever the selectors are, and with a
\* controller selector outside 0..3 the step of every epoch is the step of
\* variant 3, with a learning-rate selector outside 0..1 the coordinator is
\* that of learning-rate variant 1.
C14_SelectorFallback ==
    (pc = "training" /\ algorithm_stage >= 0) =>
        /\ args.self_constructing_var \notin 0..3 =>
              \A settled_layers \in 0..(Last(layer_num_list) - 1) :
                  self_constructing_step(epoch, settled_layers,
                                         controller_state)
                  = self_constructing_var3(epoch, settled_layers,
                                           controller_state)
        /\ args.self_constr_rlr \notin 0..1 =>
              \A cntdwn \in 0..args.patience_param :
                  self_constr_rlr(learning_rate, 0, train_params.reduce_lr_1,
                                  train_params.reduce_lr_2, cntdwn)
                  = self_constr_rlr1(learning_rate, 0,
                                     train_params.reduce_lr_1,
                                     train_params.reduce_lr_2, cntdwn)

\* both selectors at -1, in ascension on a Block of more than 2 layers, where
\* a settled layer would move variant 2 to improvement
C14_Witness ==
    /\ args.self_constructing_var = -1
    /\ args.self_constr_rlr = -1
    /\ pc = "training"
    /\ algorithm_stage = 0
    /\ Last(layer_num_list) > 2

-----------------------------------------------------------------------------
(* Construction from the layer_num_list argument as the command line gives  *)
(* it: a string, here a sequence of characters.                             *)

MaxStrLen == 3         \* longest layer_num_list string

Digits == {"1", "2"}

Chars == Digits \cup {",", "x"}

LayerStrings == UNION {[1..n -> Chars] : n \in 0..MaxStrLen}

\* str.split(','): the substrings between the commas, empty ones included
RECURSIVE str_split(_)
str_split(str) ==
    IF str = <<>> THEN << <<>> >>
    ELSE IF Head(str) = "," THEN << <<>> >> \o str_split(Tail(str))
    ELSE LET rest == str_split(Tail(str))
         IN  << <<Head(str)>> \o rest[1] >> \o Tail(rest)

\* int(tok) returns a value for a non-empty string of digits
int_accepts(tok) == tok # <<>> /\ \A i \in DOMAIN tok : tok[i] \in Digits

RECURSIVE int_of_str(_)
int_of_str(tok) ==
    IF tok = <<>> THEN 0
    ELSE 10 * int_of_str(SubSeq(tok, 1, Len(tok) - 1))
         + (IF tok[Len(tok)] = "1" THEN 1 ELSE 2)

\* the parse falling back to one Block of one layer
parse_layer_num_list_m1(str) ==
    LET toks == str_split(str)
    IN  IF \A i \in DOMAIN toks : int_accepts(toks[i])
        THEN [raised |-> "", list |-> [i \in DOMAIN toks |-> int_of_str(toks[i])]]
        ELSE [raised |-> "", list |-> <<1>>]

\* list(map(int, layer_num_list.split(','))): the list, or the ValueError
\* raised when int() rejects a substring
parse_layer_num_list(str) ==
    LET toks == str_split(str)
    IN  IF \A i \in DOMAIN toks : int_accepts(toks[i])
        THEN [raised |-> "", list |-> [i \in DOMAIN toks |-> int_of_str(toks[i])]]
        ELSE [raised |-> "ValueError", list |-> <<>>]

InitParse == \E str \in LayerStrings :
    /\ args = [should_self_construct |-> FALSE,
               should_change_lr |-> FALSE,
               should_save_model |-> TRUE,
               self_constructing_var |-> -1,
               self_constr_rlr |-> -1,
               block_count |-> 1,
               asc_thresh |-> 1,
               patience_param |-> 0,
               std_tolerance |-> 0,
               std_window |-> 1,
               layer_num_list |-> str]
    /\ train_params = [max_n_ep |-> 1, reduce_lr_1 |-> 2, reduce_lr_2 |-> 3]
    /\ pc = "construct"
    /\ run = [train |-> TRUE, test |-> FALSE]
    /\ block_count = -1
    /\ layer_num_list = <<>>
    /\ total_blocks = -1
    /\ max_n_ep = -1
    /\ algorithm_stage = -1
    /\ settled_layers_ceil = -1
    /\ patience_cntdwn = -1
    /\ acc_FIFO = <<>>
    /\ epoch = 1
    /\ epoch_last_b = 0
    /\ learning_rate = 0
    /\ continue_training = TRUE
    /\ plateau_count = 0
    /\ fifo_blocks = <<>>
    /\ weights = "fresh"
    /\ checkpoint = {}
    /\ cntdwn_set_epoch = -1
    /\ block_added_epoch = 0
    /\ NoGraph
    /\ NoAnalysis

\* DenseNet.__init__ up to self.block_count; the ValueError of int() is
\* caught nowhere and ends the program
Construct ==
    /\ pc = "construct"
    /\ \E parsed \in {parse_layer_num_list(args.layer_num_list)} :
          IF parsed.raised # ""
          THEN /\ pc' = parsed.raised
               /\ UNCHANGED <<layer_num_list, total_blocks, block_count>>
          ELSE /\ layer_num_list' = parsed.list
               /\ total_blocks' = Len(parsed.list)
               /\ block_count' = Max(1, args.block_count)
               /\ pc' = "constructed"
    /\ UNCHANGED <<graph, analysis, args, train_params, epoch_last_b, run, max_n_ep,
                   algorithm_stage, settled_layers_ceil, patience_cntdwn,
                   acc_FIFO, epoch, learning_rate, continue_training,
                   plateau_count, fifo_blocks, weights, checkpoint,
                   cntdwn_set_epoch, block_added_epoch>>

NextParse == Construct

SpecParse == InitParse /\ [][NextParse]_vars

\* a list of positive numbers written with digits and separated by commas
WellFormed(str) ==
    /\ str # <<>>
    /\ \A i \in DOMAIN str : str[i] \in Digits \cup {","}
    /\ str[1] # ","
    /\ str[Len(str)] # ","
    /\ \A i \in 1..(Len(str) - 1) : ~(str[i] = "," /\ str[i + 1] = ",")

Commas(str) == Cardinality({i \in DOMAIN str : str[i] = ","})

-----------------------------------------------------------------------------
(* Claims on the countdown and the epoch budget of the general              *)
(* specification                                                            *)

\* a step in which the controller reports the stop condition
StopFires ==
    /\ SelfConstructing
    /\ pc = "training"
    /\ ~continue_training'

\* at a step, the epoch at which the countdown in force was started: this
\* epoch if the improvement stage is entered in it
CountdownStart ==
    IF algorithm_stage = 0 THEN epoch ELSE cntdwn_set_epoch

\* C16: under the variants 2 and 3 the stop condition fires exactly
\* patience_param epochs after the epoch at which the countdown was last
\* started, be it by entering improvement or by a settlement reset.
C16_StopAfterPatience ==
    [][(StopFires /\ args.self_constructing_var \in {2, 3})
       => epoch = CountdownStart + args.patience_param]_vars

\* C17: under the variants 0 and 1 the epoch compared with the budget is
\* counted from the addition of the last Block: the controller does not
\* report the end of a Block's improvement stage before max_n_ep epochs have
\* elapsed since the epoch at which the Block was added.
C17_BudgetPerBlock ==
    [][(StopFires /\ args.self_constructing_var \in {0, 1})
       => epoch - block_added_epoch >= max_n_ep]_vars

-----------------------------------------------------------------------------
(* Claims on the stage transitions of the general specification *)

\* the controller is about to run a step in the ascension stage
InAscension ==
    /\ SelfConstructing
    /\ pc = "training"
    /\ algorithm_stage = 0

C19_Var3StaysInAscension ==
    /\ []((InAscension /\ args.self_constructing_var = 3) =>
            \A settled_layers \in 0..(Last(layer_num_list) - 1) :
                \E c \in {self_constructing_var3(epoch, settled_layers,
                                                 controller_state)} :
                    c.algorithm_stage = 0 /\ c.continue_training)
    /\ [][(/\ InAscension
           /\ args.self_constructing_var = 3
           /\ algorithm_stage' = 1 \/ ~continue_training')
          => plateau_count' > plateau_count]_vars

\* variant 3 in improvement on a Block that grew in ascension
C19_Witness ==
    /\ SelfConstructing
    /\ args.self_constructing_var = 3
    /\ pc = "training"
    /\ algorithm_stage = 1
    /\ plateau_count >= 1
    /\ Last(layer_num_list) > 2

\* an epoch in which the driver runs the accuracy-plateau check
AscensionEpoch ==
    /\ InAscension
    /\ epoch - epoch_last_b # 1

\* C20: in every epoch whose stage is ascension the driver appends one
\* accuracy to the FIFO, dropping the oldest when std_window are held; the
\* FIFO never holds more than std_window values and changes in no other
\* epoch; the stage is forced to improvement exactly when the FIFO then holds
\* std_window values whose standard deviation is below std_tolerance; and in
\* an epoch of forced transition a layer is appended only by the
\* improvement rule (a raised settled_layers_ceil), not by the ascension
\* rule.
C20_PlateauRule ==
    /\ [](Len(acc_FIFO) <= args.std_window)
    /\ [][IF AscensionEpoch
          THEN /\ Len(acc_FIFO') =
                     IF Len(acc_FIFO) < args.std_window
                     THEN Len(acc_FIFO) + 1 ELSE args.std_window
               /\ Last(acc_FIFO') \in Accs
               /\ \A i \in 1..(Len(acc_FIFO') - 1) :
                     acc_FIFO'[i] =
                        acc_FIFO[i + Len(acc_FIFO) + 1 - Len(acc_FIFO')]
               /\ plateau_count' > plateau_count <=>
                     /\ Len(acc_FIFO') = args.std_window
                     /\ std_below(acc_FIFO', args.std_tolerance)
               /\ (/\ plateau_count' > plateau_count
                   /\ layer_num_list'[Len(layer_num_list)]
                         > Last(layer_num_list))
                  => settled_layers_ceil' > settled_layers_ceil
          ELSE /\ acc_FIFO' = acc_FIFO
               /\ plateau_count' = plateau_count]_vars

\* the plateau check has fired on a full FIFO of 2 accuracies under variant
\* 0, at an epoch where the ascension rule was due, and no layer was appended
C20_Witness ==
    /\ SelfConstructing
    /\ args.self_constructing_var = 0
    /\ args.std_window = 2
    /\ args.asc_thresh = 1
    /\ plateau_count = 1
    /\ Len(acc_FIFO) = 2
    /\ algorithm_stage = 1
    /\ epoch = 4
    /\ layer_num_list = <<2>>

\* the record a controller step works on in an epoch of accuracy acc: the
\* fields as the accuracy-plateau check leaves them
step_input(acc) ==
    LET f == plateau_check(acc, [acc_FIFO |-> acc_FIFO,
                                 algorithm_stage |-> algorithm_stage,
                                 max_n_ep |-> max_n_ep,
                                 plateau_count |-> plateau_count,
                                 fifo_blocks |-> fifo_blocks])
    IN  [controller_state EXCEPT !.algorithm_stage = f.algorithm_stage,
                                 !.max_n_ep = f.max_n_ep]

\* C21: under the variants 1, 2 and 3, when the step runs in the improvement
\* stage and the stop condition is not met, a layer is appended if and only
\* if settled_layers > settled_layers_ceil; the ceil is then settled_layers
\* and, under the variants 2 and 3, the countdown patience_param; otherwise
\* nothing is mutated, the ceil is kept and, under the variants 2 and 3, the
\* countdown decreases by 1.  Variant 1 never touches the countdown.
C21_ImprovementAppend ==
    (/\ SelfConstructing
     /\ args.self_constructing_var \in 1..3
     /\ pc = "training"
     /\ algorithm_stage >= 0) =>
        \A acc \in Accs, settled_layers \in 0..(Last(layer_num_list) - 1) :
            \E c0 \in {step_input(acc)} :
            \E c \in {self_constructing_step(epoch, settled_layers, c0)} :
                (c0.algorithm_stage = 1 /\ c.continue_training) =>
                    /\ c.algorithm_stage = 1
                    /\ IF settled_layers > settled_layers_ceil
                       THEN /\ c.layer_num_list = new_layer(layer_num_list)
                            /\ c.settled_layers_ceil = settled_layers
                            /\ c.patience_cntdwn =
                                  IF args.self_constructing_var = 1
                                  THEN patience_cntdwn
                                  ELSE args.patience_param
                       ELSE /\ c.layer_num_list = layer_num_list
                            /\ c.settled_layers_ceil = settled_layers_ceil
                            /\ c.patience_cntdwn =
                                  IF args.self_constructing_var = 1
                                  THEN patience_cntdwn
                                  ELSE patience_cntdwn - 1

\* variant 1 in improvement, entered by the plateau check, after a layer was
\* appended on a first settled layer
C21_Witness ==
    /\ SelfConstructing
    /\ args.self_constructing_var = 1
    /\ pc = "training"
    /\ algorithm_stage = 1
    /\ plateau_count = 1
    /\ settled_layers_ceil = 1
    /\ layer_num_list = <<3>>

-----------------------------------------------------------------------------
\* The TensorFlow graph of a self-constructing DenseNet: its trainable
\* variables by name, their values, the recorded filters and kernels and the
\* Classifier Head.  A tensor is followed by its number of channels.

MaxGrowth == 2         \* largest growth_rate
MaxExpansion == 3      \* largest expansion_rate
MaxFeatures == 7       \* widest self.output a mutation may produce
MaxTrain == 1          \* training epochs followed
MaxGraphBlocks == 2    \* most Blocks a new Block may lead to
inter_factor == 4      \* bottleneck: inter_features = out_features * 4

\* a variable name: "Initial_convolution/filter",
\* "Block_<block>/layer_<layer>/<name><num>",
\* "Transition_after_block_<block>/<name><num>",
\* "Transition_to_FC_block_<block>/BatchNorm<num>/<name>" or
\* "FC_block_<block>_<name><num>"; -1 stands for an absent number
VarName(scope, block, layer, name, num) ==
    [scope |-> scope, block |-> block, layer |-> layer, name |-> name,
     num |-> num]

\* the graph as the building functions pass it on; raised is the exception
\* that ended the construction ("": none)
current_graph ==
    [filter_ref_list |-> filter_ref_list,
     kernels_ref_list |-> kernels_ref_list,
     output |-> output,
     features_total |-> features_total,
     FC_W |-> FC_W,
     trainable_variables |-> trainable_variables,
     var_values |-> var_values,
     train_step |-> train_step,
     raised |-> ""]

\* tf.get_variable: a new variable of that name; when the name exists, the
\* existing variable in a scope with reuse=tf.AUTO_REUSE, ValueError in a
\* scope that does not reuse
get_variable(g, v, reuse) ==
    IF g.raised # "" THEN g
    ELSE IF v \in g.trainable_variables
         THEN IF reuse THEN g ELSE [g EXCEPT !.raised = "ValueError"]
         ELSE [g EXCEPT !.trainable_variables = @ \cup {v}]

RECURSIVE get_variables(_, _, _)
get_variables(g, vs, reuse) ==
    IF vs = <<>> THEN g
    ELSE get_variables(get_variable(g, Head(vs), reuse), Tail(vs), reuse)

\* the beta and gamma of tf.contrib.layers.batch_norm(scale=True)
append_last(lists, x) == [lists EXCEPT ![Len(lists)] = Append(@, x)]

\* conv2d_with_kernels: the kernel variables kernel0 .. kernel<out-1>
kernel_names(out_features) == [o \in 1..out_features |-> o - 1]

conv2d_with_kernels(g, scope, block, layer, out_features) ==
    get_variables(g,
        [o \in 1..out_features |->
            VarName(scope, block, layer, "composite_function/kernel", o - 1)],
        FALSE)

\* composite_function: batch normalisation, ReLU, convolution by kernels
composite_function(g, scope, block, layer, out_features) ==
    conv2d_with_kernels(
        get_variables(g,
            << VarName(scope, block, layer,
                       "composite_function/BatchNorm/beta", -1),
               VarName(scope, block, layer,
                       "composite_function/BatchNorm/gamma", -1) >>,
            FALSE),
        scope, block, layer, out_features)

\* bottleneck: batch normalisation, ReLU, 1x1 convolution
bottleneck(g, block, layer) ==
    get_variables(g,
        << VarName("Block", block, layer, "bottleneck/BatchNorm/beta", -1),
           VarName("Block", block, layer, "bottleneck/BatchNorm/gamma", -1),
           VarName("Block", block, layer, "bottleneck/filter", -1) >>,
        FALSE)

\* add_internal_layer(_input = g.output, layer, growth_rate)
add_internal_layer(g, block, layer) ==
    LET in_features == g.output
        growth_rate == args.growth_rate
        b == IF args.bc_mode THEN bottleneck(g, block, layer) ELSE g
        f == IF args.bc_mode
             THEN [b EXCEPT !.filter_ref_list =
                      append_last(@, [in_features |-> in_features,
                                      out_features |->
                                          growth_rate * inter_factor])]
             ELSE b
        c == composite_function(f, "Block", block, layer, growth_rate)
    IN  [c EXCEPT
            !.filter_ref_list =
                append_last(@, [in_features |->
                                    IF args.bc_mode
                                    THEN growth_rate * inter_factor
                                    ELSE in_features,
                                out_features |-> growth_rate]),
            !.kernels_ref_list = append_last(@, kernel_names(growth_rate)),
            !.output = in_features + growth_rate]

RECURSIVE add_layers(_, _, _, _)
add_layers(g, block, layer, layers_in_block) ==
    IF layer = layers_in_block THEN g
    ELSE add_layers(add_internal_layer(g, block, layer), block, layer + 1,
                    layers_in_block)

\* add_block(_input = g.output, block, growth_rate, layers_in_block, is_last)
add_block(g, block, layers_in_block) ==
    add_layers([g EXCEPT !.filter_ref_list = Append(@, <<>>),
                         !.kernels_ref_list = Append(@, <<>>)],
               block, 0, layers_in_block)

\* transition_layer(_input = g.output, block); reduction in quarters
transition_layer(g, block) ==
    LET out_features == IntOfQuarters(g.output, args.reduction)
        c == composite_function(g, "Transition_after_block", block, -1,
                                out_features)
    IN  [c EXCEPT
            !.filter_ref_list =
                append_last(@, [in_features |-> g.output,
                                out_features |-> out_features]),
            !.kernels_ref_list = append_last(@, kernel_names(out_features)),
            !.output = out_features]

\* the value of a variable: one entry per feature for the beta and gamma of
\* the head's batch normalisation, one entry for any other variable; step 0
\* is the initializer's value and step t > 0 the value after epoch t
value_at(v, step) ==
    [i \in 1..(IF v.scope = "Transition_to_FC_block" THEN v.num ELSE 1) |->
        [step |-> step, of |-> v, at |-> i]]

\* sess.run(tf.variables_initializer(vs))
variables_initializer(g, vs) ==
    [g EXCEPT !.var_values =
        [v \in DOMAIN @ \cup vs |-> IF v \in vs THEN value_at(v, 0) ELSE @[v]]]

FC_W_name(block, i) == VarName("FC_block", block, -1, "W", i)
FC_bias_name(block) == VarName("FC_block", block, -1, "bias", -1)
BatchNorm_name(block, features, name) ==
    VarName("Transition_to_FC_block", block, -1, name, features)

\* transition_layer_to_classes(_input = g.output, block)
transition_layer_to_classes(g, block) ==
    LET n == g.output
        h == get_variables(g, << BatchNorm_name(block, n, "beta"),
                                 BatchNorm_name(block, n, "gamma") >>, TRUE)
        w == get_variables(h, [i \in 1..n |-> FC_W_name(block, i - 1)] \o
                              << FC_bias_name(block) >>, FALSE)
    IN  [w EXCEPT !.features_total = n,
                  !.FC_W = [i \in 1..n |-> FC_W_name(block, i - 1)]]

\* reconstruct_transition_to_classes keeping the old values in the last
\* entries instead of the first
reconstruct_transition_to_classes_m1(g, block) ==
    LET new_features_total == g.output
        difference == new_features_total - g.features_total
        beta == BatchNorm_name(block, g.features_total, "beta")
        gamma == BatchNorm_name(block, g.features_total, "gamma")
        new_beta == BatchNorm_name(block, new_features_total, "beta")
        new_gamma == BatchNorm_name(block, new_features_total, "gamma")
        h == variables_initializer(
                 get_variables(g, <<beta, gamma, new_beta, new_gamma>>, TRUE),
                 {new_beta, new_gamma})
        copied(old, new) ==
            [i \in 1..new_features_total |->
                IF i > difference
                THEN g.var_values[old][i - difference]
                ELSE h.var_values[new][i]]
        w == get_variables(
                 h,
                 [j \in 1..(new_features_total - Len(g.FC_W)) |->
                     FC_W_name(block, Len(g.FC_W) + j - 1)],
                 FALSE)
    IN  IF difference <= 0
        THEN [h EXCEPT !.raised = "ValueError"]
        ELSE [w EXCEPT
                !.var_values = [@ EXCEPT ![new_beta] = copied(beta, new_beta),
                                         ![new_gamma] =
                                             copied(gamma, new_gamma)],
                !.features_total = new_features_total,
                !.FC_W = @ \o
                    [j \in 1..(new_features_total - Len(g.FC_W)) |->
                        FC_W_name(block, Len(g.FC_W) + j - 1)]]

\* reconstruct_transition_to_classes(_input = g.output, block): a slice
\* [:-difference] of another length than the old values cannot take them
reconstruct_transition_to_classes(g, block) ==
    LET new_features_total == g.output
        difference == new_features_total - g.features_total
        beta == BatchNorm_name(block, g.features_total, "beta")
        gamma == BatchNorm_name(block, g.features_total, "gamma")
        new_beta == BatchNorm_name(block, new_features_total, "beta")
        new_gamma == BatchNorm_name(block, new_features_total, "gamma")
        h == variables_initializer(
                 get_variables(g, <<beta, gamma, new_beta, new_gamma>>, TRUE),
                 {new_beta, new_gamma})
        copied(old, new) ==
            [i \in 1..new_features_total |->
                IF i <= new_features_total - difference
                THEN g.var_values[old][i]
                ELSE h.var_values[new][i]]
        w == get_variables(
                 h,
                 [j \in 1..(new_features_total - Len(g.FC_W)) |->
                     FC_W_name(block, Len(g.FC_W) + j - 1)],
                 FALSE)
    IN  IF difference <= 0
        THEN [h EXCEPT !.raised = "ValueError"]
        ELSE [w EXCEPT
                !.var_values = [@ EXCEPT ![new_beta] = copied(beta, new_beta),
                                         ![new_gamma] =
                                             copied(gamma, new_gamma)],
                !.features_total = new_features_total,
                !.FC_W = @ \o
                    [j \in 1..(new_features_total - Len(g.FC_W)) |->
                        FC_W_name(block, Len(g.FC_W) + j - 1)]]

\* str(n), most significant digit first
RECURSIVE str_of_int(_)
str_of_int(n) ==
    IF n < 10 THEN <<n>> ELSE Append(str_of_int(n \div 10), n % 10)

\* str(a) is a prefix of str(b)
digits_startswith(b, a) ==
    /\ Len(str_of_int(a)) <= Len(str_of_int(b))
    /\ SubSeq(str_of_int(b), 1, Len(str_of_int(a))) = str_of_int(a)

\* get_useful_variables taking every variable named FC_...
get_useful_variables_m1(g, blocks) ==
    {variable \in g.trainable_variables :
        \/ variable.scope = "FC_block"
        \/ /\ variable.scope = "Transition_to_FC_block"
           /\ variable.block = blocks - 1
           /\ digits_startswith(variable.num, g.features_total)
        \/ /\ variable.scope # "FC_block"
           /\ variable.scope # "Transition_to_FC_block"}

\* get_useful_variables with self.total_blocks = blocks: the names that start
\* with "FC_block_%d_", those that start with
\* "Transition_to_FC_block_%d/BatchNorm%d", and those that start with
\* neither "FC_" nor "Transition_to_FC_"
get_useful_variables(g, blocks) ==
    {variable \in g.trainable_variables :
        \/ /\ variable.scope = "FC_block"
           /\ variable.block = blocks - 1
        \/ /\ variable.scope = "Transition_to_FC_block"
           /\ variable.block = blocks - 1
           /\ digits_startswith(variable.num, g.features_total)
        \/ /\ variable.scope # "FC_block"
           /\ variable.scope # "Transition_to_FC_block"}

\* _define_end_graph_operations with self.total_blocks = blocks
_define_end_graph_operations(g, blocks, preserve_transition) ==
    IF g.raised # "" THEN g ELSE
    LET h == IF preserve_transition
             THEN reconstruct_transition_to_classes(g, blocks - 1)
             ELSE transition_layer_to_classes(g, blocks - 1)
    IN  IF h.raised # "" THEN h
        ELSE [h EXCEPT !.train_step = get_useful_variables(h, blocks)]

\* _initialize_uninitialized_variables
_initialize_uninitialized_variables(g) ==
    IF g.raised # "" THEN g
    ELSE variables_initializer(
             g, g.trainable_variables \ DOMAIN g.var_values)

\* the loop of add_new_kernels_to_layer from new_k on: the name of a new
\* kernel is 'kernel' + str(len(self.kernels_ref_list[-1][-1]) + new_k), the
\* length being that of the list the earlier turns of the loop appended to
RECURSIVE create_kernels(_, _, _, _, _)
create_kernels(g, block, layer, new_k, kernel_num) ==
    IF new_k = kernel_num THEN g
    ELSE LET kernels == Last(Last(g.kernels_ref_list))
             num == Len(kernels) + new_k
             h == get_variable(
                      g, VarName("Block", block, layer,
                                 "composite_function/kernel", num), FALSE)
         IN  IF h.raised # "" THEN h
             ELSE create_kernels(
                      [h EXCEPT !.kernels_ref_list =
                          append_last(
                              SubSeq(@, 1, Len(@) - 1) \o
                              << SubSeq(Last(@), 1, Len(Last(@)) - 1) >>,
                              Append(kernels, num))],
                      block, layer, new_k + 1, kernel_num)

\* add_new_kernels_to_layer(self.input_lt_lay, self.input_lt_cnv, layer,
\* kernel_num): the layer's input is the output less the layer's kernels
add_new_kernels_to_layer(g, block, layer, kernel_num) ==
    LET input_lt_lay == g.output - Len(Last(Last(g.kernels_ref_list)))
        filters == Last(g.filter_ref_list)
        h == create_kernels(g, block, layer, 0, kernel_num)
        kernels == Last(Last(h.kernels_ref_list))
    IN  IF h.raised # "" THEN h
        ELSE [h EXCEPT
                !.filter_ref_list =
                    append_last(
                        SubSeq(@, 1, Len(@) - 1) \o
                        << SubSeq(filters, 1, Len(filters) - 1) >>,
                        [in_features |-> Last(filters).in_features,
                         out_features |-> Len(kernels)]),
                !.output = input_lt_lay + Len(kernels)]

\* _new_kernels_to_last_layer
_new_kernels_to_last_layer(g, lnl, blocks) ==
    _initialize_uninitialized_variables(
        _define_end_graph_operations(
            add_new_kernels_to_layer(g, blocks - 1, Last(lnl) - 1,
                                     args.expansion_rate),
            blocks, TRUE))

\* _new_layer, the graph's part: lnl is self.layer_num_list before the call
_new_layer(g, lnl, blocks) ==
    _initialize_uninitialized_variables(
        _define_end_graph_operations(
            add_internal_layer(g, blocks - 1, Last(lnl)), blocks, TRUE))

\* _new_block, the graph's part: blocks is self.total_blocks before the call
_new_block(g, blocks) ==
    _initialize_uninitialized_variables(
        _define_end_graph_operations(
            add_block(transition_layer(g, blocks - 1), blocks, 1),
            blocks + 1, FALSE))

RECURSIVE build_blocks(_, _, _)
build_blocks(g, block, layers_in_each_block) ==
    IF block = Len(layers_in_each_block) THEN g
    ELSE LET b == add_block(g, block, layers_in_each_block[block + 1])
         IN  build_blocks(
                 IF block # Len(layers_in_each_block) - 1
                 THEN transition_layer(b, block) ELSE b,
                 block + 1, layers_in_each_block)

\* _build_graph and _initialize_session: images of 3 channels
_build_graph(lnl) ==
    LET first == VarName("Initial_convolution", -1, -1, "filter", -1)
        g == [filter_ref_list |->
                  << << [in_features |-> 3,
                         out_features |-> args.growth_rate * 2] >> >>,
              kernels_ref_list |-> <<>>,
              output |-> args.growth_rate * 2,
              features_total |-> 0,
              FC_W |-> <<>>,
              trainable_variables |-> {first},
              var_values |-> <<>>,
              train_step |-> {},
              raised |-> ""]
        h == _define_end_graph_operations(build_blocks(g, 0, lnl),
                                          Len(lnl), FALSE)
    IN  variables_initializer(h, h.trainable_variables)

\* a Python slice bound i on an axis of n entries
py_index(n, i) ==
    IF i < 0 THEN (IF i + n < 0 THEN 0 ELSE i + n)
    ELSE (IF i > n THEN n ELSE i)

\* ary[st:end] for an axis of n entries: the indices it holds
py_slice(n, st, end) ==
    [i \in 1..(py_index(n, end) - py_index(n, st)) |->
        py_index(n, st) + i - 1]

\* np.split(ary, indices) along an axis of n entries
np_split(n, indices) ==
    LET div_points == <<0>> \o indices \o <<n>>
    IN  [j \in 1..(Len(indices) + 1) |->
            py_slice(n, div_points[j], div_points[j + 1])]

\* get_cs_list splitting from the first channel on
get_cs_list_m1(channels, f_num) ==
    LET n == f_num \div (1 + (IF args.bc_mode THEN 1 ELSE 0))
        splitting_guide ==
            [j \in 1..n |-> j * args.growth_rate]
    IN  IF Len(splitting_guide) > 0
        THEN np_split(channels, splitting_guide)
        ELSE << py_slice(channels, 0, channels) >>

\* get_cs_list(f_image, f_num) up to the split: f_image.shape[0] = channels,
\* i runs from int(f_num/(1+int(bc_mode))) down to 1
get_cs_list(channels, f_num) ==
    LET n == f_num \div (1 + (IF args.bc_mode THEN 1 ELSE 0))
        splitting_guide ==
            [j \in 1..n |-> channels - (n - j + 1) * args.growth_rate]
    IN  IF Len(splitting_guide) > 0
        THEN np_split(channels, splitting_guide)
        ELSE << py_slice(channels, 0, channels) >>

\* the f of process_block_filters that are processed
processed_filters(filters) ==
    SelectSeq([i \in 1..Len(filters) |-> i - 1],
              LAMBDA f : ~args.bc_mode \/ f % 2 = 0)

GraphArgs ==
    [should_self_construct : {TRUE},
     should_change_lr : {FALSE},
     should_save_model : {TRUE},
     self_constructing_var : {4},
     self_constr_rlr : {0},
     block_count : {1},
     asc_thresh : {1},
     patience_param : {0},
     std_tolerance : {0},
     std_window : {1},
     layer_num_list : InitLayerLists,
     growth_rate : 1..MaxGrowth,
     expansion_rate : 1..MaxExpansion,
     bc_mode : BOOLEAN,
     reduction : {2, 4}]

\* after DenseNet.__init__ of a self-constructing model
InitGraph == \E a \in GraphArgs :
    /\ args = a
    /\ train_params = [max_n_ep |-> MaxTrain, reduce_lr_1 |-> 2,
                       reduce_lr_2 |-> 3]
    /\ pc = "training"
    /\ run = [train |-> TRUE, test |-> FALSE]
    /\ block_count = 1
    /\ layer_num_list = a.layer_num_list
    /\ total_blocks = Len(a.layer_num_list)
    /\ max_n_ep = MaxTrain
    /\ algorithm_stage = -1
    /\ settled_layers_ceil = -1
    /\ patience_cntdwn = a.patience_param
    /\ acc_FIFO = <<>>
    /\ epoch = 1
    /\ epoch_last_b = 0
    /\ learning_rate = 0
    /\ continue_training = TRUE
    /\ plateau_count = 0
    /\ fifo_blocks = <<>>
    /\ weights = "fresh"
    /\ checkpoint = {}
    /\ cntdwn_set_epoch = -1
    /\ block_added_epoch = 0
    /\ \E g \in {_build_graph(a.layer_num_list)} :
          /\ filter_ref_list = g.filter_ref_list
          /\ kernels_ref_list = g.kernels_ref_list
          /\ output = g.output
          /\ features_total = g.features_total
          /\ FC_W = g.FC_W
          /\ trainable_variables = g.trainable_variables
          /\ var_values = g.var_values
          /\ train_step = g.train_step
    /\ NoAnalysis

loop_state == <<args, train_params, block_count, max_n_ep, algorithm_stage,
                settled_layers_ceil, patience_cntdwn, acc_FIFO, epoch_last_b,
                learning_rate, continue_training, plateau_count, fifo_blocks,
                run, weights, checkpoint, cntdwn_set_epoch,
                block_added_epoch>>

\* the graph a mutation leaves; an exception ends the program
Mutated(g, lnl) ==
    /\ filter_ref_list' = g.filter_ref_list
    /\ kernels_ref_list' = g.kernels_ref_list
    /\ output' = g.output
    /\ features_total' = g.features_total
    /\ FC_W' = g.FC_W
    /\ trainable_variables' = g.trainable_variables
    /\ var_values' = g.var_values
    /\ train_step' = g.train_step
    /\ IF g.raised # ""
       THEN /\ pc' = g.raised
            /\ UNCHANGED <<layer_num_list, total_blocks>>
       ELSE /\ pc' = pc
            /\ layer_num_list' = lnl
            /\ total_blocks' = Len(lnl)
    /\ cs_split' = <<>>
    /\ UNCHANGED <<loop_state, epoch, cs_table_ls, lcs_dst, lcs_src>>

\* _new_layer
NewLayer ==
    /\ pc = "training"
    /\ output + args.growth_rate <= MaxFeatures
    /\ \E g \in {_new_layer(current_graph, layer_num_list, total_blocks)} :
          Mutated(g, new_layer(layer_num_list))

\* _new_kernels_to_last_layer
NewKernels ==
    /\ pc = "training"
    /\ output + args.expansion_rate <= MaxFeatures
    /\ \E g \in {_new_kernels_to_last_layer(current_graph, layer_num_list,
                                            total_blocks)} :
          Mutated(g, layer_num_list)

\* _new_block
NewBlock ==
    /\ pc = "training"
    /\ total_blocks < MaxGraphBlocks
    /\ IntOfQuarters(output, args.reduction) + args.growth_rate <= MaxFeatures
    /\ \E g \in {_new_block(current_graph, total_blocks)} :
          Mutated(g, new_block(layer_num_list))

\* an epoch of self.train_step: every variable of its var_list gets a new
\* value
TrainGraph ==
    /\ pc = "training"
    /\ epoch <= MaxTrain
    /\ var_values' = [v \in DOMAIN var_values |->
                         IF v \in train_step THEN value_at(v, epoch)
                         ELSE var_values[v]]
    /\ epoch' = epoch + 1
    /\ cs_split' = <<>>
    /\ UNCHANGED <<loop_state, cs_table_ls, lcs_dst, lcs_src, pc,
                   layer_num_list, total_blocks, filter_ref_list, kernels_ref_list, output, features_total,
                   FC_W, trainable_variables, train_step>>

\* process_block_filters(b, epoch), its loop over the filters of Block b:
\* each processed filter with the groups get_cs_list splits its input
\* channels into
ProcessFilters(b) ==
    /\ pc = "training"
    /\ LET filters == filter_ref_list[b + 2]
           fs == processed_filters(filters)
       IN  cs_split' =
               [k \in 1..Len(fs) |->
                   [f_num |-> fs[k],
                    channels |-> filters[fs[k] + 1].in_features,
                    split |-> get_cs_list(filters[fs[k] + 1].in_features,
                                          fs[k])]]
    /\ UNCHANGED <<loop_state, graph, pc, epoch, layer_num_list, total_blocks,
                   cs_table_ls, lcs_dst, lcs_src>>

NextGraph ==
    \/ NewLayer
    \/ NewKernels
    \/ NewBlock
    \/ TrainGraph
    \/ \E b \in 0..(total_blocks - 1) : ProcessFilters(b)

SpecGraph == InitGraph /\ [][NextGraph]_vars

RECURSIVE concatenate(_)
concatenate(arrays) ==
    IF arrays = <<>> THEN <<>> ELSE Head(arrays) \o concatenate(Tail(arrays))

\* C22: for every processed filter, of index f_num and with C input
\* channels, get_cs_list splits the channels into f_num + 1 groups
\* (int(f_num/2) + 1 in bottleneck mode); every group is non-empty, the
\* groups in order hold the channels 0 .. C-1 once each, and the group
\* boundaries lie growth_rate apart counted backward from C.
C22_Groups ==
    \A k \in 1..Len(cs_split) :
        LET groups == cs_split[k].split
            C == cs_split[k].channels
            f_num == cs_split[k].f_num
        IN  /\ Len(groups) =
                  (IF args.bc_mode THEN f_num \div 2 ELSE f_num) + 1
            /\ \A j \in 1..Len(groups) : groups[j] # <<>>
            /\ concatenate(groups) = [i \in 1..C |-> i - 1]
            /\ \A j \in 2..Len(groups) :
                  groups[j][1] = C - (Len(groups) - j + 1) * args.growth_rate

\* a third layer processed after kernels were added to an earlier one: its
\* first group is wider than the Block's input
C22_Witness ==
    \E k \in 1..Len(cs_split) :
        /\ ~args.bc_mode
        /\ cs_split[k].f_num = 2
        /\ Len(cs_split[k].split) = 3
        /\ Len(cs_split[k].split[1]) > 2 * args.growth_rate

-----------------------------------------------------------------------------
\* The 'layer CS' of a Block from its table of connection strengths.  A
\* quotient is kept as numerator and denominator.

MaxCSLayers == 2       \* most layers of the analysed Block
MaxCS == 4             \* largest connection strength
tresh_fract == 67      \* tresh_fract=0.67, in hundredths

RECURSIVE max(_)
max(list) ==
    IF Len(list) = 1 THEN list[1] ELSE Max(Head(list), max(Tail(list)))

\* int(cs/max_cs >= tresh_fract)
relevant(cs, max_cs) == IF 100 * cs >= tresh_fract * max_cs THEN 1 ELSE 0

\* get_relev_dst dividing by the number of sources instead
get_relev_dst_m1(layers, cs) ==
    [l \in 1..layers |->
        [num |-> SumSeq([k \in 1..(layers - l + 1) |->
                     relevant(cs[l + k - 1][l], max(cs[l + k - 1]))]),
         den |-> l]]

\* get_relev_dst(b, cs_table_ls) with self.layer_num_list[b] = layers; the
\* layer l of the code is l - 1 here
get_relev_dst(layers, cs) ==
    [l \in 1..layers |->
        [num |-> SumSeq([k \in 1..(layers - l + 1) |->
                     relevant(cs[l + k - 1][l], max(cs[l + k - 1]))]),
         den |-> layers - (l - 1)]]

\* max(fwd[s] for fwd in cs_table_ls[s:])
max_sent(cs, s) == max([k \in 1..(Len(cs) - s + 1) |-> cs[s + k - 1][s]])

\* get_relev_src(b, cs_table_ls)
get_relev_src(layers, cs) ==
    [l \in 1..layers |->
        [num |-> SumSeq([s \in 1..Len(cs[l]) |->
                     relevant(cs[l][s], max_sent(cs, s))]),
         den |-> (l - 1) + 1]]

\* get_spread_emi(b, cs_table_ls)
get_spread_emi(layers, cs) ==
    [l \in 1..layers |->
        [num |-> SumSeq([k \in 1..(layers - l + 1) |->
                     relevant(cs[l + k - 1][l], max_sent(cs, l))]),
         den |-> layers - (l - 1)]]

\* get_spread_rec(b, cs_table_ls)
get_spread_rec(layers, cs) ==
    [l \in 1..layers |->
        [num |-> SumSeq([s \in 1..Len(cs[l]) |->
                     relevant(cs[l][s], max(cs[l]))]),
         den |-> (l - 1) + 1]]

\* the tables of connection strengths with the given number of rows: row d
\* (from 0) holds the d + 1 strengths of filter d
RECURSIVE CSTables(_)
CSTables(rows) ==
    IF rows = 0 THEN {<<>>}
    ELSE {Append(t, r) : t \in CSTables(rows - 1),
                         r \in [1..rows -> 1..MaxCS]}

\* process_block_filters(b, epoch) after its loop over the filters: the
\* table has a row per layer, and one more for the transition layer when
\* Block b is not the last
InitLCS ==
    \E layers \in 1..MaxCSLayers, transition \in 0..1,
       layer_cs \in {"relevance", "spread"} :
    \E table \in CSTables(layers + transition) :
        /\ args = [layer_cs |-> layer_cs]
        /\ train_params = [max_n_ep |-> 1, reduce_lr_1 |-> 2,
                           reduce_lr_2 |-> 3]
        /\ pc = "training"
        /\ run = [train |-> TRUE, test |-> FALSE]
        /\ block_count = 1
        /\ layer_num_list = IF transition = 1 THEN <<layers, 1>>
                            ELSE <<layers>>
        /\ total_blocks = 1 + transition
        /\ max_n_ep = 1
        /\ algorithm_stage = -1
        /\ settled_layers_ceil = -1
        /\ patience_cntdwn = -1
        /\ acc_FIFO = <<>>
        /\ epoch = 1
        /\ epoch_last_b = 0
        /\ learning_rate = 0
        /\ continue_training = TRUE
        /\ plateau_count = 0
        /\ fifo_blocks = <<>>
        /\ weights = "fresh"
        /\ checkpoint = {}
        /\ cntdwn_set_epoch = -1
        /\ block_added_epoch = 0
        /\ NoGraph
        /\ cs_split = <<>>
        /\ cs_table_ls = table
        /\ lcs_dst = <<>>
        /\ lcs_src = <<>>

\* process_block_filters(0, epoch), from the choice of the 'layer CS' on
LayerCS ==
    /\ lcs_dst = <<>>
    /\ IF args.layer_cs = "relevance"
       THEN /\ lcs_dst' = get_relev_dst(layer_num_list[1], cs_table_ls)
            /\ lcs_src' = get_relev_src(layer_num_list[1], cs_table_ls)
       ELSE /\ lcs_dst' = get_spread_emi(layer_num_list[1], cs_table_ls)
            /\ lcs_src' = get_spread_rec(layer_num_list[1], cs_table_ls)
    /\ UNCHANGED <<loop_state, graph, pc, epoch, layer_num_list, total_blocks,
                   cs_split, cs_table_ls>>

NextLCS == LayerCS

SpecLCS == InitLCS /\ [][NextLCS]_vars

\* C23: for a table whose row d holds d + 1 positive strengths, every entry
\* of the relevance for destinations and for sources, and of the spread of
\* emission and of reception, is a count of relevant connections divided by
\* a positive number of connections that is at least the count: it lies in
\* [0, 1].
C23_UnitInterval ==
    \A l \in 1..Len(lcs_dst) :
        /\ lcs_dst[l].den > 0
        /\ 0 <= lcs_dst[l].num /\ lcs_dst[l].num <= lcs_dst[l].den
        /\ lcs_src[l].den > 0
        /\ 0 <= lcs_src[l].num /\ lcs_src[l].num <= lcs_src[l].den

\* a Block of two layers before a transition layer whose sources are partly
\* relevant
C23_Witness ==
    /\ Len(lcs_src) = 2
    /\ Len(cs_table_ls) = 3
    /\ lcs_src[2].num = 1
    /\ lcs_dst[1].num = 1
    /\ lcs_dst[1].den = 2

-----------------------------------------------------------------------------
\* the beta and gamma of the current head's batch normalisation
head_beta == BatchNorm_name(total_blocks - 1, features_total, "beta")
head_gamma == BatchNorm_name(total_blocks - 1, features_total, "gamma")

\* a step that widened the Classifier Head of the last Block
HeadResized ==
    /\ pc' = "training"
    /\ total_blocks' = total_blocks
    /\ features_total' # features_total

\* C24: when kernels or a layer are appended, the Classifier Head is
\* resized from the old width to a greater one: the first old-width FC
\* weight rows are the same variables with the same values, the first
\* old-width entries of the batch normalisation's beta and gamma are the old
\* beta and gamma, the FC bias keeps its value, and the remaining rows and
\* entries hold initial values.
C24_HeadResize ==
    [][HeadResized =>
        /\ features_total' > features_total
        /\ Len(FC_W') = features_total'
        /\ \A i \in 1..features_total :
              /\ FC_W'[i] = FC_W[i]
              /\ var_values'[FC_W[i]] = var_values[FC_W[i]]
              /\ var_values'[head_beta'][i] = var_values[head_beta][i]
              /\ var_values'[head_gamma'][i] = var_values[head_gamma][i]
        /\ var_values'[FC_bias_name(total_blocks - 1)] =
              var_values[FC_bias_name(total_blocks - 1)]
        /\ \A i \in (features_total + 1)..features_total' :
              /\ var_values'[FC_W'[i]] = value_at(FC_W'[i], 0)
              /\ var_values'[head_beta'][i] = value_at(head_beta', 0)[i]
              /\ var_values'[head_gamma'][i] = value_at(head_gamma', 0)[i]
    ]_vars

\* a head resized after an epoch of training: its beta starts with trained
\* entries of the beta it replaced and ends with an initial one
C24_Witness ==
    /\ pc = "training"
    /\ head_beta \in DOMAIN var_values
    /\ var_values[head_beta][1].step = 1
    /\ var_values[head_beta][1].of # head_beta
    /\ var_values[head_beta][features_total].step = 0
    /\ var_values[FC_W[1]][1].step = 1
    /\ var_values[FC_W[features_total]][1].step = 0

\* the variables of classifier heads, and those of the current head: the FC
\* weights and bias in use and the batch normalisation of the current width
HeadVariables ==
    {v \in trainable_variables :
        v.scope \in {"FC_block", "Transition_to_FC_block"}}
CurrentHead ==
    {FC_W[i] : i \in 1..Len(FC_W)} \cup
    {FC_bias_name(total_blocks - 1), head_beta, head_gamma}

\* C25: the 'useful' variables, which the training step optimises, are the
\* trainable variables outside every classifier head together with the
\* variables of the current head; no variable of a superseded head is among
\* them.
C25_UsefulVariables ==
    pc = "training" =>
        /\ CurrentHead \subseteq HeadVariables
        /\ get_useful_variables(current_graph, total_blocks) =
              (trainable_variables \ HeadVariables) \cup CurrentHead
        /\ train_step = (trainable_variables \ HeadVariables) \cup CurrentHead

\* a second Block whose head was resized: the head of the first Block and a
\* batch normalisation of the second are superseded
C25_Witness ==
    /\ pc = "training"
    /\ total_blocks = 2
    /\ \E v \in HeadVariables : v.scope = "FC_block" /\ v.block = 0
    /\ \E v \in HeadVariables :
          /\ v.scope = "Transition_to_FC_block"
          /\ v.block = 1
          /\ v.num < features_total

-----------------------------------------------------------------------------
\* C26: a step that appends a new Block leaves one Block more, the last one
\* with exactly one layer, and the layer counts of the earlier Blocks as they
\* were; at all times layer_num_list has total_blocks entries, each at
\* least 1.
C26_NewBlock ==
    /\ [](/\ Len(layer_num_list) = total_blocks
          /\ \A b \in 1..Len(layer_num_list) : layer_num_list[b] >= 1)
    /\ [][total_blocks' # total_blocks =>
            /\ total_blocks' = total_blocks + 1
            /\ Len(layer_num_list') = Len(layer_num_list) + 1
            /\ Last(layer_num_list') = 1
            /\ \A b \in 1..Len(layer_num_list) :
                  layer_num_list'[b] = layer_num_list[b]
       ]_vars

\* a Block appended after a Block that had grown to three layers
C26_Witness ==
    /\ SelfConstructing
    /\ total_blocks = 2
    /\ layer_num_list = <<3, 1>>
    /\ block_added_epoch > 0

-----------------------------------------------------------------------------
\* the kernels of the last layer of the last Block
last_kernels == Last(Last(kernels_ref_list))

\* a step of _new_kernels_to_last_layer: the only mutation that keeps the
\* layer counts, and the only one that may raise
KernelsStep ==
    /\ pc = "training"
    /\ layer_num_list' = layer_num_list
    /\ \/ trainable_variables' # trainable_variables
       \/ pc' # pc

\* C27: every step that appends kernels to the last layer succeeds and
\* leaves the layer with expansion_rate kernels more, the new ones under
\* names that no kernel of the layer had.
C27_KernelsAppended ==
    [][KernelsStep =>
        /\ pc' = "training"
        /\ Len(last_kernels') = Len(last_kernels) + args.expansion_rate
        /\ SubSeq(last_kernels', 1, Len(last_kernels)) = last_kernels
        /\ \A i \in (Len(last_kernels) + 1)..Len(last_kernels') :
              \A j \in 1..(i - 1) : last_kernels'[j] # last_kernels'[i]
    ]_vars

-----------------------------------------------------------------------------
\* the layers the Blocks of the pre-state gained in the step
LayersGained ==
    SumSeq([b \in 1..Len(layer_num_list) |->
               layer_num_list'[b] - layer_num_list[b]])

\* C28: in self-constructing mode an epoch mutates the structure at most
\* once: it appends one layer to the last Block, or one Block, or nothing;
\* an epoch whose controller step reports the stop appends no layer.
C28_OneMutation ==
    [][(SelfConstructing /\ pc = "training") =>
        /\ Len(layer_num_list') \in
              {Len(layer_num_list), Len(layer_num_list) + 1}
        /\ \A b \in 1..(Len(layer_num_list) - 1) :
              layer_num_list'[b] = layer_num_list[b]
        /\ LayersGained \in {0, 1}
        /\ LayersGained + (Len(layer_num_list') - Len(layer_num_list)) <= 1
        /\ ~continue_training' => LayersGained = 0
    ]_vars

\* a stop that appended a Block after an epoch that appended a layer
C28_Witness ==
    /\ SelfConstructing
    /\ args.self_constructing_var = 0
    /\ pc = "training"
    /\ ~continue_training
    /\ layer_num_list = <<2, 1>>
    /\ block_added_epoch = epoch - 1

-----------------------------------------------------------------------------
\* C29: in self-constructing mode the patience countdown stays between 0 and
\* patience_param, and under the variants 0 and 1 it is patience_param at
\* all times.
C29_CountdownRange ==
    SelfConstructing =>
        /\ 0 <= patience_cntdwn
        /\ patience_cntdwn <= args.patience_param
        /\ args.self_constructing_var \in {0, 1} =>
              patience_cntdwn = args.patience_param

\* variant 2 with its countdown run down to 0, one epoch before the stop
C29_Witness ==
    /\ SelfConstructing
    /\ args.self_constructing_var = 2
    /\ args.patience_param = 2
    /\ pc = "training"
    /\ algorithm_stage = 1
    /\ patience_cntdwn = 0

-----------------------------------------------------------------------------
\* C30: in self-constructing mode with 0 < rlr_1 < rlr_2 < 1 the learning
\* rate of every epoch is initial_lr, initial_lr/10 or initial_lr/100: the
\* number of divisions by 10 is 0, 1 or 2.
C30_RateRange ==
    (/\ SelfConstructing
     /\ 0 < train_params.reduce_lr_1
     /\ train_params.reduce_lr_1 < train_params.reduce_lr_2
     /\ train_params.reduce_lr_2 < 4) =>
        learning_rate \in 0..2

=============================================================================
